---- MODULE Spec2Model ----
(***************************************************************************)
(* go-key-service: the key store (in-memory map behind a sync.RWMutex, and *)
(* Firestore documents), the V1/V2 read path that reconciles the legacy    *)
(* single-key document with the current two-key document, and the HTTP     *)
(* handlers that write and read through the keystore.Store interface.      *)
(*                                                                         *)
(* A goroutine is one caller: a test body calling the store directly, or   *)
(* the HTTP server's per-request goroutine running a handler.              *)
(***************************************************************************)
EXTENDS Integers, Sequences, FiniteSets, TLC

\* ------------------------------------------------------------------ bounds
\* Number of distinct non-empty key blobs callers send.
NumKeys == 1
\* Number of goroutines that may be inside the store at the same time.
NumWorkers == 2

\* ------------------------------------------------------------ byte slices
\* A Go []byte: nil, or a (possibly zero-length) sequence of bytes.
Nil == [present |-> FALSE, bytes |-> <<>>]
Empty == [present |-> TRUE, bytes |-> <<>>]
Key(n) == [present |-> TRUE, bytes |-> <<n>>]
Keys == {Key(n) : n \in 1..NumKeys}
Vals == {Nil, Empty} \cup Keys
len(v) == Len(v.bytes)

\* keys.PublicKeys{EncKey, SigKey}; ZeroKeys is keys.PublicKeys{}.
PublicKeys(e, s) == [EncKey |-> e, SigKey |-> s]
ZeroKeys == PublicKeys(Nil, Nil)
Records == {PublicKeys(e, s) : e \in Vals, s \in Vals}

\* ------------------------------------------------------------------ URNs
\* urn.URN of the secure-messaging namespace: entity type and entity id.
URN(t, id) == [type |-> t, id |-> id]
NoURN == URN("", "")
\* entityURN.String(): the canonical string, used verbatim as map key and
\* as Firestore document id.
String(u) == "urn:sm:" \o u.type \o ":" \o u.id
\* entityURN.EntityID()
EntityID(u) == u.id

Types == {"user", "device"}
EntityIds == {"alice", "bob"}
AllURNs == {URN(t, id) : t \in Types, id \in EntityIds}
\* urn.Parse(raw): the URN whose canonical string is raw, or the zero URN
\* and an error.
ParseOK_Lenient(raw) == TRUE
ParseOK(raw) == \E u \in AllURNs : String(u) = raw
Parse(raw) ==
    IF \E u \in AllURNs : String(u) = raw
    THEN CHOOSE u \in AllURNs : String(u) = raw
    ELSE NoURN
\* The identifiers the store-level callers use.
StoreURNs == {URN("user", id) : id \in EntityIds}
\* The identifier the concurrent callers contend on.
ConcURNs == {URN("user", "alice")}

\* ------------------------------------------------------------ call results
\* (keys.PublicKeys, error) / ([]byte, error) as returned by a Store method.
\* err is "nil" or the kind of the error message.
Result(err, ks, k) == [err |-> err, keys |-> ks, key |-> k]
NoResult == Result("nil", ZeroKeys, Nil)
ErrNotFound == "not found"
ErrUnknownFormat == "unknown format"
ErrBackend == "backend"
ErrCanceled == "context canceled"

VARIABLES
    backend,   \* which keystore.Store the service was assembled with
    revision,  \* "v1v2": Store has StoreKey/GetKey and the V1 fallback;
               \* "current": only StorePublicKeys/GetPublicKeys
    keys,      \* inmemory.Store.keys : map[string]keys.PublicKeys
    mu,        \* inmemory.Store.RWMutex
    docs,      \* the Firestore collection: document id -> document
    g,         \* per goroutine: the Store call it is in, and its result
    http,      \* per goroutine: the HTTP request it serves, and the response
    hist,      \* history: per identifier, the last write that took effect
    allowed,   \* history: per goroutine in a read, the results a
               \* linearizable store may return to it
    wrapper    \* keyservice.Wrapper and main: the goroutines and channels of
               \* Wrapper.Start, the readiness flag, the shutdown request

vars == <<backend, revision, keys, mu, docs, g, http, hist, allowed, wrapper>>

Goroutines == 1..NumWorkers

\* --------------------------------------------------------- in-memory store
\* New(): &Store{keys: make(map[string]keys.PublicKeys)}
New == <<>>

\* sync.RWMutex: Lock waits until no reader and no writer holds the lock.
CanLock_Broken(w) == TRUE
CanLock(w) == mu.writer = 0 /\ mu.readers = {}

\* sync.RWMutex: RLock waits while a writer holds the lock or is waiting in
\* Lock (a blocked Lock call excludes new readers).
CanRLock_Broken(w) == TRUE
CanRLock(w) ==
    /\ mu.writer = 0
    /\ ~ \E v \in Goroutines : g[v].pc = "Lock"

\* The struct the in-memory write methods put in the map.
InMemoryValue(op, ks, k) ==
    IF op = "StoreKey" THEN PublicKeys(k, Empty) ELSE ks

\* s.keys[k] = v copies the struct's two slices one after the other; only
\* the lock keeps a reader from seeing the map entry between the two.
MapStoreEnc_Clobber(m, k, v) == (k :> PublicKeys(v.EncKey, Nil))
MapStoreEnc(m, k, v) ==
    [j \in DOMAIN m \cup {k} |->
        IF j = k
        THEN PublicKeys(v.EncKey, IF k \in DOMAIN m THEN m[k].SigKey ELSE Nil)
        ELSE m[j]]
MapStoreSig_Stale(m, k, v) == m
MapStoreSig(m, k, v) ==
    [j \in DOMAIN m \cup {k} |-> IF j = k THEN PublicKeys(m[k].EncKey, v.SigKey) ELSE m[j]]

\* keyStruct, ok := s.keys[k]; if !ok { return keys.PublicKeys{}, not found }
InMemoryGetPublicKeys_ZeroValue(m, k) ==
    IF k \in DOMAIN m THEN Result("nil", m[k], Nil) ELSE Result("nil", ZeroKeys, Nil)
InMemoryGetPublicKeys(m, k) ==
    IF k \in DOMAIN m
    THEN Result("nil", m[k], Nil)
    ELSE Result(ErrNotFound, ZeroKeys, Nil)

\* keyStruct, ok := s.keys[k]; if !ok { return nil, not found }; return keyStruct.EncKey
InMemoryGetKey(m, k) ==
    IF k \in DOMAIN m
    THEN Result("nil", ZeroKeys, m[k].EncKey)
    ELSE Result(ErrNotFound, ZeroKeys, Nil)

\* --------------------------------------------------------- Firestore store
\* A document is a map from field name to a bytes value. A bytes value has
\* no nil: doc.Set writes a nil []byte as a zero-length bytes value, and
\* DataTo leaves a struct field nil only when the document has no such field.
v1KeyDocument(k) == [PublicKey |-> k]
v2KeyDocument(e, s) == [EncKey |-> e, SigKey |-> s]
KeyDocument(e, s) == [EncKey |-> e, SigKey |-> s]

SetV1(d) == ("publicKey" :> d.PublicKey.bytes)
SetV2_NoSig(old, d) == ("encKey" :> d.EncKey.bytes)
SetV2_Merge(old, d) ==
    LET enc == IF len(d.EncKey) > 0 THEN ("encKey" :> d.EncKey.bytes) ELSE <<>>
        sig == IF len(d.SigKey) > 0 THEN ("sigKey" :> d.SigKey.bytes) ELSE <<>>
    IN  enc @@ sig @@ old
SetV2(old, d) == ("encKey" :> d.EncKey.bytes) @@ ("sigKey" :> d.SigKey.bytes)

Field(doc, name) ==
    IF name \in DOMAIN doc THEN [present |-> TRUE, bytes |-> doc[name]] ELSE Nil
DataToV2(doc) == [EncKey |-> Field(doc, "encKey"), SigKey |-> Field(doc, "sigKey")]
DataToV1(doc) == [PublicKey |-> Field(doc, "publicKey")]

\* Store.GetPublicKeys with the V1 compatibility fallback.
FirestoreGetPublicKeys_NilSig(c, k) ==
    IF k \notin DOMAIN c THEN Result(ErrNotFound, ZeroKeys, Nil)
    ELSE LET v2Doc == DataToV2(c[k])
             v1Doc == DataToV1(c[k])
         IN  IF v2Doc.EncKey.present \/ v2Doc.SigKey.present
             THEN Result("nil", PublicKeys(v2Doc.EncKey, v2Doc.SigKey), Nil)
             ELSE IF v1Doc.PublicKey.present
             THEN Result("nil", PublicKeys(v1Doc.PublicKey, Nil), Nil)
             ELSE Result(ErrUnknownFormat, ZeroKeys, Nil)
FirestoreGetPublicKeys_V1First(c, k) ==
    IF k \notin DOMAIN c THEN Result(ErrNotFound, ZeroKeys, Nil)
    ELSE LET v2Doc == DataToV2(c[k])
             v1Doc == DataToV1(c[k])
         IN  IF v1Doc.PublicKey.present
             THEN Result("nil", PublicKeys(v1Doc.PublicKey, Empty), Nil)
             ELSE IF v2Doc.EncKey.present \/ v2Doc.SigKey.present
             THEN Result("nil", PublicKeys(v2Doc.EncKey, v2Doc.SigKey), Nil)
             ELSE Result(ErrUnknownFormat, ZeroKeys, Nil)
FirestoreGetPublicKeys(c, k) ==
    IF k \notin DOMAIN c THEN Result(ErrNotFound, ZeroKeys, Nil)
    ELSE LET v2Doc == DataToV2(c[k])
             v1Doc == DataToV1(c[k])
         IN  IF v2Doc.EncKey.present \/ v2Doc.SigKey.present
             THEN Result("nil", PublicKeys(v2Doc.EncKey, v2Doc.SigKey), Nil)
             ELSE IF v1Doc.PublicKey.present
             THEN Result("nil", PublicKeys(v1Doc.PublicKey, Empty), Nil)
             ELSE Result(ErrUnknownFormat, ZeroKeys, Nil)

\* Store.GetPublicKeys of the revision that knows the current format only.
FirestoreGetPublicKeysCurrent_EmptyOK(c, k) ==
    IF k \notin DOMAIN c THEN Result(ErrNotFound, ZeroKeys, Nil)
    ELSE LET kDoc == DataToV2(c[k])
         IN  Result("nil", PublicKeys(kDoc.EncKey, kDoc.SigKey), Nil)
FirestoreGetPublicKeysCurrent(c, k) ==
    IF k \notin DOMAIN c THEN Result(ErrNotFound, ZeroKeys, Nil)
    ELSE LET kDoc == DataToV2(c[k])
         IN  IF kDoc.EncKey.present \/ kDoc.SigKey.present
             THEN Result("nil", PublicKeys(kDoc.EncKey, kDoc.SigKey), Nil)
             ELSE Result(ErrUnknownFormat, ZeroKeys, Nil)

\* Store.GetKey (V1): the publicKey field of the document, whatever it holds.
FirestoreGetKey(c, k) ==
    IF k \notin DOMAIN c THEN Result(ErrNotFound, ZeroKeys, Nil)
    ELSE Result("nil", ZeroKeys, DataToV1(c[k]).PublicKey)

\* ------------------------------------------------------------ HTTP requests
\* middleware.GetUserIDFromContext: (authedUserID, ok)
NoSubject == [ok |-> FALSE, id |-> ""]
UserID(id) == [ok |-> TRUE, id |-> id]

\* Base64 text of a byte string of at most one byte, as its sextets
\* (padding left out), and its inverse.
Base64Encode(b) == IF Len(b) = 0 THEN <<>> ELSE <<b[1] \div 4, (b[1] % 4) * 16>>
Base64Decode(t) == IF Len(t) = 0 THEN <<>> ELSE <<t[1] * 4 + t[2] \div 16>>

\* A JSON body: malformed, or an object whose encKey / sigKey members are
\* missing or base64 strings.
Missing == [present |-> FALSE, b64 |-> <<>>]
JSONString(t) == [present |-> TRUE, b64 |-> t]
JSONBody(e, s) == [valid |-> TRUE, encKey |-> e, sigKey |-> s]
BadJSON == [valid |-> FALSE, encKey |-> Missing, sigKey |-> Missing]
\* json.NewDecoder(r.Body).Decode(&keysToStore)
DecodeField(f) == IF f.present THEN [present |-> TRUE, bytes |-> Base64Decode(f.b64)] ELSE Nil
Decode(body) == PublicKeys(DecodeField(body.encKey), DecodeField(body.sigKey))
\* json.NewEncoder(w).Encode(retrievedKeys)
Encode_Swapped(ks) == JSONBody(JSONString(Base64Encode(ks.SigKey.bytes)),
                               JSONString(Base64Encode(ks.EncKey.bytes)))
Encode(ks) == JSONBody(JSONString(Base64Encode(ks.EncKey.bytes)),
                       JSONString(Base64Encode(ks.SigKey.bytes)))

Response(status, msg) == [status |-> status, msg |-> msg]
NoRequest ==
    [handler |-> "none", subject |-> NoSubject, path |-> "", body |-> BadJSON,
     status |-> 0, msg |-> "", called |-> FALSE, out |-> BadJSON, ctype |-> "",
     raw |-> Nil, rawout |-> Nil]

\* ---------------------------------------------------------------- history
AllKeys == {String(u) : u \in AllURNs \cup {NoURN}}
\* op/keys/key: the write; conc: another write to the identifier was in flight
\* with it; over: "first" when it replaced no StorePublicKeys record, "shrunk"
\* when it replaced one that had a value in a field where this write has
\* none, "over" when it replaced one otherwise.
NoWrite == [op |-> "none", keys |-> ZeroKeys, key |-> Nil, conc |-> FALSE, over |-> "first"]
Write(op, ks, k, conc, over) ==
    [op |-> op, keys |-> ks, key |-> k, conc |-> conc, over |-> over]

\* --------------------------------------------------------- service start
\* A Go channel of errors: its buffer, its capacity, whether it is closed.
MakeChan(cap) == [buf |-> <<>>, cap |-> cap, closed |-> FALSE]
CanSend(ch) == Len(ch.buf) < ch.cap
Send(ch, v) == [ch EXCEPT !.buf = Append(@, v)]
CanRecv(ch) == Len(ch.buf) > 0 \/ ch.closed
\* The value a receive yields: the head of the buffer, or the zero value
\* (a nil error) from a closed and drained channel.
RecvValue(ch) == IF Len(ch.buf) > 0 THEN Head(ch.buf) ELSE "nil"
RecvRest(ch) == IF Len(ch.buf) > 0 THEN [ch EXCEPT !.buf = Tail(@)] ELSE ch
ChanClose_Omitted(ch) == ch
ChanClose(ch) == [ch EXCEPT !.closed = TRUE]

ErrServerClosed == "http: Server closed"
ListenErrors == {"listen: address already in use", "listen: permission denied"}
ServeErrors == {"accept: too many open files"}

\* pc: where Wrapper.Start is; srv: where its server goroutine is; out: what
\* BaseServer.Start returned; listening: net.Listen has succeeded; ready:
\* the flag SetReady sets; ret: what Wrapper.Start returned; shutdown:
\* Shutdown has been called; main: where main is; mainErr: main's errChan.
NewWrapper ==
    [pc |-> "new", srv |-> "none", out |-> "none", listening |-> FALSE,
     httpReadyChan |-> "none", errChan |-> MakeChan(0), ready |-> FALSE,
     ret |-> "none", shutdown |-> FALSE, main |-> "go", mainErr |-> MakeChan(1)]

\* ------------------------------------------------------------------- Init
\* ctx is the context.Context the call was given: "live", "cancelled" when
\* it was cancelled before the call, "cancelled in flight" when during it.
IdleG == [pc |-> "idle", op |-> "none", urn |-> NoURN, keys |-> ZeroKeys,
          key |-> Nil, res |-> NoResult, conc |-> FALSE, ctx |-> "live"]

InitWith(revisions) ==
    /\ backend \in {"inmemory", "firestore"}
    /\ revision \in revisions
    /\ keys = New
    /\ mu = [writer |-> 0, readers |-> {}]
    /\ docs = <<>>
    /\ g = [w \in Goroutines |-> IdleG]
    /\ http = [w \in Goroutines |-> NoRequest]
    /\ hist = [k \in AllKeys |-> NoWrite]
    /\ allowed = [w \in Goroutines |-> {}]
    /\ wrapper = NewWrapper

\* Either revision of the store, empty.
Init == InitWith({"v1v2", "current"})
\* The current revision (Store has StorePublicKeys and GetPublicKeys only).
InitCurrent == InitWith({"current"})
\* The V1/V2 revision (Store has StoreKey and GetKey as well).
InitV1V2 == InitWith({"v1v2"})

\* ------------------------------------------------------- goroutine helpers
WriteOps == {"StoreKey", "StorePublicKeys"}
ReadOps == {"GetKey", "GetPublicKeys"}
Idle(w) == g[w].pc \in {"idle", "done"}
InWrite(v, k) ==
    /\ g[v].op \in WriteOps
    /\ g[v].pc \in {"Lock", "store", "store2", "rpc"}
    /\ String(g[v].urn) = k
InRead(v, k) ==
    /\ g[v].op \in ReadOps
    /\ g[v].pc \in {"RLock", "load", "rpc"}
    /\ String(g[v].urn) = k

\* History: what a read returns once write h is the last one of its identifier.
ExpectedResult(h) ==
    IF h.op = "none" THEN Result(ErrNotFound, ZeroKeys, Nil)
    ELSE IF h.op = "StoreKey" THEN Result("nil", PublicKeys(h.key, Empty), Nil)
    ELSE Result("nil", h.keys, Nil)

\* A Store write method is entered: the in-memory store goes for its Lock,
\* the Firestore store sends doc.Set.
EnterWriteCtx(w, ctx, op, u, ks, k) ==
    LET key == String(u)
        others == {v \in Goroutines \ {w} : InWrite(v, key)}
    IN  /\ g' = [v \in Goroutines |->
                  IF v = w
                  THEN [pc |-> IF backend = "inmemory" THEN "Lock" ELSE "rpc",
                        op |-> op, urn |-> u, keys |-> ks, key |-> k,
                        res |-> NoResult, conc |-> others # {}, ctx |-> ctx]
                  ELSE IF v \in others THEN [g[v] EXCEPT !.conc = TRUE]
                  ELSE g[v]]
        /\ allowed' = [allowed EXCEPT ![w] = {}]
        /\ UNCHANGED <<wrapper, backend, revision, keys, mu, docs, hist>>

\* The call is made with a context nobody cancels.
EnterWrite(w, op, u, ks, k) == EnterWriteCtx(w, "live", op, u, ks, k)

\* A Store read method is entered: RLock, or doc.Get.
EnterReadCtx(w, ctx, op, u) ==
    /\ g' = [g EXCEPT ![w] =
              [pc |-> IF backend = "inmemory" THEN "RLock" ELSE "rpc",
               op |-> op, urn |-> u, keys |-> ZeroKeys, key |-> Nil,
               res |-> NoResult, conc |-> FALSE, ctx |-> ctx]]
    /\ allowed' = [allowed EXCEPT ![w] = {ExpectedResult(hist[String(u)])}]
    /\ UNCHANGED <<wrapper, backend, revision, keys, mu, docs, hist>>
EnterRead(w, op, u) == EnterReadCtx(w, "live", op, u)

\* History: the write of goroutine w takes effect.
Commit(w) ==
    LET k == String(g[w].urn)
        old == hist[k]
        new == ExpectedResult(Write(g[w].op, g[w].keys, g[w].key, FALSE, "first")).keys
        over == IF old.op # "StorePublicKeys" THEN "first"
                ELSE IF \/ len(old.keys.EncKey) > 0 /\ len(new.EncKey) = 0
                        \/ len(old.keys.SigKey) > 0 /\ len(new.SigKey) = 0
                THEN "shrunk"
                ELSE "over"
        h == Write(g[w].op, g[w].keys, g[w].key, g[w].conc, over)
    IN  /\ hist' = [hist EXCEPT ![k] = h]
        /\ allowed' = [v \in Goroutines |->
                        IF InRead(v, k) THEN allowed[v] \cup {ExpectedResult(h)}
                        ELSE allowed[v]]

\* The rest of the handler once the Store method has returned res.
StoreKeysHandlerReply_Swapped(res) ==
    IF res.err # "nil" THEN Response(201, "")
    ELSE Response(500, "Failed to store public keys")
StoreKeysHandlerReply(res) ==
    IF res.err # "nil" THEN Response(500, "Failed to store public keys")
    ELSE Response(201, "")
GetKeysHandlerReply_Always200(res) == Response(200, "")
GetKeysHandlerReply(res) ==
    IF res.err # "nil" THEN Response(404, "Key not found")
    ELSE Response(200, "")
\* The rest of the V1 handlers once the Store method has returned res.
StoreKeyHandlerReply(res) ==
    IF res.err # "nil" THEN Response(500, "Failed to store key")
    ELSE Response(201, "")
GetKeyHandlerReply(res) ==
    IF res.err # "nil" THEN Response(404, "Key not found")
    ELSE Response(200, "")
Respond(w, res) ==
    http' = [http EXCEPT ![w] =
        IF @.handler \in {"StoreKeysHandler", "StorePublicKeysHandler"}
        THEN [@ EXCEPT !.status = StoreKeysHandlerReply(res).status,
                       !.msg = StoreKeysHandlerReply(res).msg]
        ELSE IF @.handler \in {"GetKeysHandler", "GetPublicKeysHandler"}
        THEN [@ EXCEPT !.status = GetKeysHandlerReply(res).status,
                       !.msg = GetKeysHandlerReply(res).msg,
                       !.ctype = IF res.err = "nil" THEN "application/json" ELSE @,
                       !.out = IF res.err = "nil" THEN Encode(res.keys) ELSE BadJSON]
        ELSE IF @.handler = "StoreKeyHandler"
        THEN [@ EXCEPT !.status = StoreKeyHandlerReply(res).status,
                       !.msg = StoreKeyHandlerReply(res).msg]
        ELSE IF @.handler = "GetKeyHandler"
        THEN [@ EXCEPT !.status = GetKeyHandlerReply(res).status,
                       !.msg = GetKeyHandlerReply(res).msg,
                       !.ctype = IF res.err = "nil" THEN "application/octet-stream" ELSE @,
                       !.rawout = IF res.err = "nil" THEN res.key ELSE Nil]
        ELSE @]
Return(w, res) ==
    /\ g' = [g EXCEPT ![w].pc = "done", ![w].res = res]
    /\ Respond(w, res)

\* ------------------------------------------------ in-memory store: steps
\* s.Lock()
Lock(w) ==
    /\ g[w].pc = "Lock"
    /\ CanLock(w)
    /\ mu' = [mu EXCEPT !.writer = w]
    /\ g' = [g EXCEPT ![w].pc = "store"]
    /\ UNCHANGED <<wrapper, backend, revision, keys, docs, http, hist, allowed>>

\* s.keys[entityURN.String()] = ... (first half of the struct copy)
MapAssignEnc(w) ==
    /\ g[w].pc = "store"
    /\ keys' = MapStoreEnc(keys, String(g[w].urn),
                           InMemoryValue(g[w].op, g[w].keys, g[w].key))
    /\ g' = [g EXCEPT ![w].pc = "store2"]
    /\ UNCHANGED <<wrapper, backend, revision, mu, docs, http, hist, allowed>>

\* second half of the struct copy; return nil; deferred s.Unlock()
MapAssignSig(w) ==
    /\ g[w].pc = "store2"
    /\ keys' = MapStoreSig(keys, String(g[w].urn),
                           InMemoryValue(g[w].op, g[w].keys, g[w].key))
    /\ mu' = [mu EXCEPT !.writer = 0]
    /\ Commit(w)
    /\ Return(w, Result("nil", ZeroKeys, Nil))
    /\ UNCHANGED <<wrapper, backend, revision, docs>>

\* s.RLock()
RLock(w) ==
    /\ g[w].pc = "RLock"
    /\ CanRLock(w)
    /\ mu' = [mu EXCEPT !.readers = @ \cup {w}]
    /\ g' = [g EXCEPT ![w].pc = "load"]
    /\ UNCHANGED <<wrapper, backend, revision, keys, docs, http, hist, allowed>>

\* keyStruct, ok := s.keys[...]; return; deferred s.RUnlock()
MapLoad(w) ==
    /\ g[w].pc = "load"
    /\ mu' = [mu EXCEPT !.readers = @ \ {w}]
    /\ Return(w, IF g[w].op = "GetKey"
                 THEN InMemoryGetKey(keys, String(g[w].urn))
                 ELSE InMemoryGetPublicKeys(keys, String(g[w].urn)))
    /\ UNCHANGED <<wrapper, backend, revision, keys, docs, hist, allowed>>

\* ------------------------------------------------- Firestore store: steps
\* doc.Set(ctx, ...) is carried out by the backend, or fails (ok = FALSE),
\* and the write method returns. With ctx cancelled before the call nothing
\* is sent; with ctx cancelled during the call the client returns the
\* cancellation error whether or not the backend had carried the write out.
FirestoreSet(w, ok) ==
    LET k == String(g[w].urn)
        old == IF k \in DOMAIN docs THEN docs[k] ELSE <<>>
        new == IF g[w].op = "StoreKey"
               THEN SetV1(v1KeyDocument(g[w].key))
               ELSE SetV2(old, v2KeyDocument(g[w].keys.EncKey, g[w].keys.SigKey))
    IN  /\ g[w].pc = "rpc"
        /\ g[w].op \in WriteOps
        /\ IF g[w].ctx = "cancelled"
           THEN /\ Return(w, Result(ErrCanceled, ZeroKeys, Nil))
                /\ UNCHANGED <<docs, hist, allowed>>
           ELSE IF ok
           THEN /\ docs' = [j \in DOMAIN docs \cup {k} |-> IF j = k THEN new ELSE docs[j]]
                /\ Commit(w)
                /\ Return(w, Result(IF g[w].ctx = "live" THEN "nil" ELSE ErrCanceled,
                                    ZeroKeys, Nil))
           ELSE /\ Return(w, Result(IF g[w].ctx = "live" THEN ErrBackend ELSE ErrCanceled,
                                    ZeroKeys, Nil))
                /\ UNCHANGED <<docs, hist, allowed>>
        /\ UNCHANGED <<wrapper, backend, revision, keys, mu>>

\* s.collection.Doc(entityKey).Get(ctx) answers, or fails (ok = FALSE), and
\* the read method parses the document and returns.
FirestoreGet(w, ok) ==
    LET k == String(g[w].urn)
    IN  /\ g[w].pc = "rpc"
        /\ g[w].op \in ReadOps
        /\ Return(w, IF g[w].ctx # "live" THEN Result(ErrCanceled, ZeroKeys, Nil)
                     ELSE IF ~ok THEN Result(ErrBackend, ZeroKeys, Nil)
                     ELSE IF g[w].op = "GetKey" THEN FirestoreGetKey(docs, k)
                     ELSE IF revision = "v1v2" THEN FirestoreGetPublicKeys(docs, k)
                     ELSE FirestoreGetPublicKeysCurrent(docs, k))
        /\ UNCHANGED <<wrapper, backend, revision, keys, mu, docs, hist, allowed>>

Step(w) ==
    \/ Lock(w)
    \/ MapAssignEnc(w)
    \/ MapAssignSig(w)
    \/ RLock(w)
    \/ MapLoad(w)
    \/ \E ok \in BOOLEAN : FirestoreSet(w, ok)
    \/ \E ok \in BOOLEAN : FirestoreGet(w, ok)

\* ------------------------------------------------------ direct Store calls
StorePublicKeys(w, u, ks) ==
    /\ Idle(w)
    /\ http' = [http EXCEPT ![w] = NoRequest]
    /\ EnterWrite(w, "StorePublicKeys", u, ks, Nil)

StoreKey(w, u, k) ==
    /\ Idle(w)
    /\ revision = "v1v2"
    /\ http' = [http EXCEPT ![w] = NoRequest]
    /\ EnterWrite(w, "StoreKey", u, ZeroKeys, k)

GetPublicKeys(w, u) ==
    /\ Idle(w)
    /\ http' = [http EXCEPT ![w] = NoRequest]
    /\ EnterRead(w, "GetPublicKeys", u)

GetKey(w, u) ==
    /\ Idle(w)
    /\ revision = "v1v2"
    /\ http' = [http EXCEPT ![w] = NoRequest]
    /\ EnterRead(w, "GetKey", u)

\* ------------------------------------------------------------ HTTP handlers
\* authedUserID, ok := middleware.GetUserIDFromContext(r.Context()); if !ok
HasUserID_Skip(subj) == TRUE
HasUserID(subj) == subj.ok

\* if entityURN.EntityID() != authedUserID  (negated: the caller owns the URN)
OwnsEntity_Skip(u, subj) == TRUE
OwnsEntity(u, subj) == EntityID(u) = subj.id

\* if len(keysToStore.EncKey) == 0 || len(keysToStore.SigKey) == 0  (negated)
KeysPresent_Either(ks) == len(ks.EncKey) # 0 \/ len(ks.SigKey) # 0
KeysPresent(ks) == ~ (len(ks.EncKey) = 0 \/ len(ks.SigKey) = 0)

\* StoreKeysHandler up to the Store call: the error response of the first
\* check that fails, or status 0 when the request goes on to the store.
StoreKeysChecks_BodyFirst(subj, path, body) ==
    IF ~ body.valid THEN Response(400, "Invalid JSON body format")
    ELSE IF ~ KeysPresent(Decode(body))
    THEN Response(400, "encKey and sigKey must not be empty")
    ELSE IF ~ HasUserID(subj) THEN Response(401, "Unauthorized: No user ID in token")
    ELSE IF ~ ParseOK(path) THEN Response(400, "Invalid URN format")
    ELSE IF ~ OwnsEntity(Parse(path), subj)
    THEN Response(403, "Forbidden: You can only store your own key")
    ELSE Response(0, "")
StoreKeysChecks(subj, path, body) ==
    IF ~ HasUserID(subj) THEN Response(401, "Unauthorized: No user ID in token")
    ELSE IF ~ ParseOK(path) THEN Response(400, "Invalid URN format")
    ELSE IF ~ OwnsEntity(Parse(path), subj)
    THEN Response(403, "Forbidden: You can only store your own key")
    ELSE IF ~ body.valid THEN Response(400, "Invalid JSON body format")
    ELSE IF ~ KeysPresent(Decode(body))
    THEN Response(400, "encKey and sigKey must not be empty")
    ELSE Response(0, "")

Request(handler, subj, path, body, status, msg, called) ==
    [handler |-> handler, subject |-> subj, path |-> path, body |-> body,
     status |-> status, msg |-> msg, called |-> called, out |-> BadJSON,
     ctype |-> "", raw |-> Nil, rawout |-> Nil]

StoreKeysHandler(w, subj, path, body) ==
    LET chk == StoreKeysChecks(subj, path, body)
    IN  /\ Idle(w)
        /\ IF chk.status # 0
           THEN /\ http' = [http EXCEPT ![w] =
                       Request("StoreKeysHandler", subj, path, body, chk.status, chk.msg, FALSE)]
                /\ g' = [g EXCEPT ![w] = [IdleG EXCEPT !.pc = "done"]]
                /\ allowed' = [allowed EXCEPT ![w] = {}]
                /\ UNCHANGED <<wrapper, backend, revision, keys, mu, docs, hist>>
           ELSE /\ http' = [http EXCEPT ![w] =
                       Request("StoreKeysHandler", subj, path, body, 0, "", TRUE)]
                /\ EnterWrite(w, "StorePublicKeys", Parse(path), Decode(body), Nil)

\* mux.Handle("GET /keys/{entityURN}", corsMiddleware(getHandler)): the route
\* has no authMiddleware, so whoever sends the request (subj) is admitted and
\* the handler's context carries no user id.
GetRouteAdmits_SubjectOnly(subj) == subj.ok
GetRouteAdmits(subj) == TRUE

\* The GET route and GetKeysHandler; subj is the sender of the request.
GetKeysHandler(w, subj, path) ==
    /\ Idle(w)
    /\ IF ~ GetRouteAdmits(subj)
       THEN /\ http' = [http EXCEPT ![w] =
                   Request("GetKeysHandler", subj, path, BadJSON, 401,
                           "Unauthorized", FALSE)]
            /\ g' = [g EXCEPT ![w] = [IdleG EXCEPT !.pc = "done"]]
            /\ allowed' = [allowed EXCEPT ![w] = {}]
            /\ UNCHANGED <<wrapper, backend, revision, keys, mu, docs, hist>>
       ELSE IF ~ ParseOK(path)
       THEN /\ http' = [http EXCEPT ![w] =
                   Request("GetKeysHandler", subj, path, BadJSON, 400,
                           "Invalid URN format", FALSE)]
            /\ g' = [g EXCEPT ![w] = [IdleG EXCEPT !.pc = "done"]]
            /\ allowed' = [allowed EXCEPT ![w] = {}]
            /\ UNCHANGED <<wrapper, backend, revision, keys, mu, docs, hist>>
       ELSE /\ http' = [http EXCEPT ![w] =
                   Request("GetKeysHandler", subj, path, BadJSON, 0, "", TRUE)]
            /\ EnterRead(w, "GetPublicKeys", Parse(path))

\* The requests the HTTP clients send.
Subjects == {NoSubject} \cup {UserID(id) : id \in EntityIds}
ApiURNs == {URN(t, "alice") : t \in Types}
Paths == {String(u) : u \in ApiURNs} \cup {"not-a-urn"}
\* The key blobs of the request bodies.
ApiKeys == {Key(1), Key(2)}
JSONFields == {Missing, JSONString(<<>>)} \cup {JSONString(Base64Encode(k.bytes)) : k \in ApiKeys}
Bodies == {BadJSON} \cup {JSONBody(e, s) : e \in JSONFields, s \in JSONFields}

\* The assembled service: one request after the other.
NextAPI ==
    \/ \E subj \in Subjects, path \in Paths, body \in Bodies :
            StoreKeysHandler(1, subj, path, body)
    \/ \E subj \in Subjects, path \in Paths : GetKeysHandler(1, subj, path)
    \/ Step(1)

SpecAPI == InitCurrent /\ [][NextAPI]_vars

\* ------------------------------------------- HTTP handlers, V1/V2 revision
\* if entityString != authedUserID  (negated), entityString = entityURN.String()
OwnsEntityString(u, subj) == String(u) = subj.id

\* A request that ends in the handler, before any Store call.
Reject(w, req) ==
    /\ http' = [http EXCEPT ![w] = req]
    /\ g' = [g EXCEPT ![w] = [IdleG EXCEPT !.pc = "done"]]
    /\ allowed' = [allowed EXCEPT ![w] = {}]
    /\ UNCHANGED <<wrapper, backend, revision, keys, mu, docs, hist>>

\* StorePublicKeysHandler up to the Store call.
StorePublicKeysChecks(subj, path, body) ==
    IF ~ HasUserID(subj) THEN Response(401, "Unauthorized: No user ID in token")
    ELSE IF ~ ParseOK(path) THEN Response(400, "Invalid URN format")
    ELSE IF ~ OwnsEntityString(Parse(path), subj)
    THEN Response(403, "Forbidden: You can only store your own key")
    ELSE IF ~ body.valid THEN Response(400, "Invalid JSON body format")
    ELSE IF ~ KeysPresent(Decode(body))
    THEN Response(400, "encKey and sigKey must not be empty")
    ELSE Response(0, "")

StorePublicKeysHandler(w, subj, path, body) ==
    LET chk == StorePublicKeysChecks(subj, path, body)
    IN  /\ Idle(w)
        /\ revision = "v1v2"
        /\ IF chk.status # 0
           THEN Reject(w, Request("StorePublicKeysHandler", subj, path, body,
                                  chk.status, chk.msg, FALSE))
           ELSE /\ http' = [http EXCEPT ![w] =
                       Request("StorePublicKeysHandler", subj, path, body, 0, "", TRUE)]
                /\ EnterWrite(w, "StorePublicKeys", Parse(path), Decode(body), Nil)

\* key, err := io.ReadAll(r.Body): the raw body, or a read error.
RawBody(ok, v) == [ok |-> ok, key |-> v]
\* StoreKeyHandler up to the Store call.
StoreKeyChecks(subj, path, raw) ==
    IF ~ HasUserID(subj) THEN Response(401, "Unauthorized: No user ID in token")
    ELSE IF ~ ParseOK(path) THEN Response(400, "Invalid URN format")
    ELSE IF ~ OwnsEntityString(Parse(path), subj)
    THEN Response(403, "Forbidden: You can only store your own key")
    ELSE IF ~ raw.ok THEN Response(500, "Failed to read request body")
    ELSE IF len(raw.key) = 0 THEN Response(400, "Request body must not be empty")
    ELSE Response(0, "")

StoreKeyHandler(w, subj, path, raw) ==
    LET chk == StoreKeyChecks(subj, path, raw)
        req(status, msg, called) ==
            [Request("StoreKeyHandler", subj, path, BadJSON, status, msg, called)
                EXCEPT !.raw = raw.key]
    IN  /\ Idle(w)
        /\ revision = "v1v2"
        /\ IF chk.status # 0
           THEN Reject(w, req(chk.status, chk.msg, FALSE))
           ELSE /\ http' = [http EXCEPT ![w] = req(0, "", TRUE)]
                /\ EnterWrite(w, "StoreKey", Parse(path), ZeroKeys, raw.key)

\* GetKeyHandler and GetPublicKeysHandler: no user id is looked at.
GetKeyHandler(w, subj, path) ==
    /\ Idle(w)
    /\ revision = "v1v2"
    /\ IF ~ ParseOK(path)
       THEN Reject(w, Request("GetKeyHandler", subj, path, BadJSON, 400,
                              "Invalid URN format", FALSE))
       ELSE /\ http' = [http EXCEPT ![w] =
                   Request("GetKeyHandler", subj, path, BadJSON, 0, "", TRUE)]
            /\ EnterRead(w, "GetKey", Parse(path))

GetPublicKeysHandler(w, subj, path) ==
    /\ Idle(w)
    /\ revision = "v1v2"
    /\ IF ~ ParseOK(path)
       THEN Reject(w, Request("GetPublicKeysHandler", subj, path, BadJSON, 400,
                              "Invalid URN format", FALSE))
       ELSE /\ http' = [http EXCEPT ![w] =
                   Request("GetPublicKeysHandler", subj, path, BadJSON, 0, "", TRUE)]
            /\ EnterRead(w, "GetPublicKeys", Parse(path))

\* The requests sent to the V1/V2 handlers: the subject is a bare entity id
\* (as in the handler tests) or the canonical string of a URN.
V1V2URNs == {URN("user", "alice")}
V1V2Subjects ==
    {NoSubject} \cup {UserID(id) : id \in EntityIds} \cup {UserID(String(u)) : u \in V1V2URNs}
V1V2Paths == {String(u) : u \in V1V2URNs} \cup {"not-a-urn"}
V1V2Bodies == {BadJSON, JSONBody(Missing, JSONString(Base64Encode(<<1>>))),
               JSONBody(JSONString(Base64Encode(<<1>>)), JSONString(Base64Encode(<<2>>)))}
RawBodies == {RawBody(FALSE, Nil), RawBody(TRUE, Empty), RawBody(TRUE, Key(1))}

NextAPIV1V2 ==
    \/ \E subj \in V1V2Subjects, path \in V1V2Paths, body \in V1V2Bodies :
            StorePublicKeysHandler(1, subj, path, body)
    \/ \E subj \in V1V2Subjects, path \in V1V2Paths, raw \in RawBodies :
            StoreKeyHandler(1, subj, path, raw)
    \/ \E subj \in V1V2Subjects, path \in V1V2Paths : GetKeyHandler(1, subj, path)
    \/ \E subj \in V1V2Subjects, path \in V1V2Paths : GetPublicKeysHandler(1, subj, path)
    \/ Step(1)

SpecAPIV1V2 == InitV1V2 /\ [][NextAPIV1V2]_vars

\* Goroutines calling the store at the same time on one identifier.
ConcRecords == {PublicKeys(Empty, Empty), PublicKeys(Key(1), Key(1))}
NextConc ==
    \E w \in Goroutines :
        \/ \E u \in ConcURNs, ks \in ConcRecords : StorePublicKeys(w, u, ks)
        \/ \E u \in ConcURNs : GetPublicKeys(w, u)
        \/ Step(w)

SpecConc == InitCurrent /\ [][NextConc]_vars

\* Goroutines calling the V1 and V2 methods of the store at the same time
\* on one identifier.
ConcBlobs == {Key(1)}
NextConcV1V2 ==
    \E w \in Goroutines :
        \/ \E u \in ConcURNs, ks \in {PublicKeys(Key(1), Key(1))} : StorePublicKeys(w, u, ks)
        \/ \E u \in ConcURNs, k \in ConcBlobs : StoreKey(w, u, k)
        \/ \E u \in ConcURNs : GetPublicKeys(w, u)
        \/ \E u \in ConcURNs : GetKey(w, u)
        \/ Step(w)

SpecConcV1V2 == InitV1V2 /\ [][NextConcV1V2]_vars

\* Two goroutines calling the V1 and V2 methods of the store at the same
\* time on two identifiers.
IndepCallers == {1, 2}
IndepBlobs == {Key(1)}
IndepRecords == {PublicKeys(Key(1), Key(1))}
NextIndep ==
    \E w \in IndepCallers :
        \/ \E u \in StoreURNs, ks \in IndepRecords : StorePublicKeys(w, u, ks)
        \/ \E u \in StoreURNs, k \in IndepBlobs : StoreKey(w, u, k)
        \/ \E u \in StoreURNs : GetPublicKeys(w, u)
        \/ Step(w)

SpecIndep == InitV1V2 /\ [][NextIndep]_vars

\* The Firestore store opened on a collection that already holds a document,
\* written by any earlier revision or any other writer: each of the fields
\* encKey, sigKey, publicKey absent or a bytes value.
FieldNames == {"encKey", "sigKey", "publicKey"}
FieldBytes == {v.bytes : v \in {Empty} \cup Keys}
AnyDocs == UNION {[S -> FieldBytes] : S \in SUBSET FieldNames}
DocURNs == {URN("user", "alice")}
InitDocs ==
    /\ backend = "firestore"
    /\ revision \in {"v1v2", "current"}
    /\ keys = New
    /\ mu = [writer |-> 0, readers |-> {}]
    /\ docs \in {<<>>} \cup {(String(u) :> d) : u \in DocURNs, d \in AnyDocs}
    /\ g = [w \in Goroutines |-> IdleG]
    /\ http = [w \in Goroutines |-> NoRequest]
    /\ hist = [k \in AllKeys |-> NoWrite]
    /\ allowed = [w \in Goroutines |-> {}]
    /\ wrapper = NewWrapper
NextDocs ==
    \/ \E u \in DocURNs : GetPublicKeys(1, u)
    \/ \E u \in DocURNs : GetKey(1, u)
    \/ \E subj \in Subjects, u \in DocURNs : GetKeysHandler(1, subj, String(u))
    \/ \E ok \in BOOLEAN : FirestoreGet(1, ok)

SpecDocs == InitDocs /\ [][NextDocs]_vars

\* One caller making the same calls on an in-memory store (its results in
\* g[1]) and on a Firestore store that answers (its results in g[2]).
InitPair ==
    /\ backend = "both"
    /\ revision = "v1v2"
    /\ keys = New
    /\ mu = [writer |-> 0, readers |-> {}]
    /\ docs = <<>>
    /\ g = [w \in Goroutines |-> IdleG]
    /\ http = [w \in Goroutines |-> NoRequest]
    /\ hist = [k \in AllKeys |-> NoWrite]
    /\ allowed = [w \in Goroutines |-> {}]
    /\ wrapper = NewWrapper

Returned(op, u, ks, k, res) ==
    [pc |-> "done", op |-> op, urn |-> u, keys |-> ks, key |-> k, res |-> res,
     conc |-> FALSE, ctx |-> "live"]

PairWrite(op, u, ks, k) ==
    LET id == String(u)
        v == InMemoryValue(op, ks, k)
        old == IF id \in DOMAIN docs THEN docs[id] ELSE <<>>
        new == IF op = "StoreKey"
               THEN SetV1(v1KeyDocument(k))
               ELSE SetV2(old, v2KeyDocument(ks.EncKey, ks.SigKey))
    IN  /\ keys' = MapStoreSig(MapStoreEnc(keys, id, v), id, v)
        /\ docs' = [j \in DOMAIN docs \cup {id} |-> IF j = id THEN new ELSE docs[j]]
        /\ g' = [g EXCEPT ![1] = Returned(op, u, ks, k, Result("nil", ZeroKeys, Nil)),
                          ![2] = Returned(op, u, ks, k, Result("nil", ZeroKeys, Nil))]
        /\ UNCHANGED <<wrapper, backend, revision, mu, http, hist, allowed>>

PairStorePublicKeys(u, ks) == PairWrite("StorePublicKeys", u, ks, Nil)
PairStoreKey(u, k) == PairWrite("StoreKey", u, ZeroKeys, k)
PairGetPublicKeys(u) ==
    /\ g' = [g EXCEPT
             ![1] = Returned("GetPublicKeys", u, ZeroKeys, Nil,
                             InMemoryGetPublicKeys(keys, String(u))),
             ![2] = Returned("GetPublicKeys", u, ZeroKeys, Nil,
                             FirestoreGetPublicKeys(docs, String(u)))]
    /\ UNCHANGED <<wrapper, backend, revision, keys, mu, docs, http, hist, allowed>>

NextPair ==
    \/ \E u \in StoreURNs, ks \in Records : PairStorePublicKeys(u, ks)
    \/ \E u \in StoreURNs, k \in Vals : PairStoreKey(u, k)
    \/ \E u \in StoreURNs : PairGetPublicKeys(u)

SpecPair == InitPair /\ [][NextPair]_vars

\* A caller passing its own context to the store: already cancelled or not,
\* and cancelling it while the call is in flight.
Contexts == {"live", "cancelled"}
StorePublicKeysCtx(w, ctx, u, ks) ==
    /\ Idle(w)
    /\ http' = [http EXCEPT ![w] = NoRequest]
    /\ EnterWriteCtx(w, ctx, "StorePublicKeys", u, ks, Nil)
GetPublicKeysCtx(w, ctx, u) ==
    /\ Idle(w)
    /\ http' = [http EXCEPT ![w] = NoRequest]
    /\ EnterReadCtx(w, ctx, "GetPublicKeys", u)
\* cancel(): the caller cancels the context of its call in flight.
Cancel(w) ==
    /\ ~ Idle(w)
    /\ g[w].ctx = "live"
    /\ g' = [g EXCEPT ![w].ctx = "cancelled in flight"]
    /\ UNCHANGED <<wrapper, backend, revision, keys, mu, docs, http, hist, allowed>>

CtxRecords == {PublicKeys(Key(1), Key(1)), PublicKeys(Key(1), Empty)}
NextCtx ==
    \/ \E ctx \in Contexts, u \in StoreURNs, ks \in CtxRecords :
            StorePublicKeysCtx(1, ctx, u, ks)
    \/ \E ctx \in Contexts, u \in StoreURNs : GetPublicKeysCtx(1, ctx, u)
    \/ Cancel(1)
    \/ Step(1)

SpecCtx == InitCurrent /\ [][NextCtx]_vars

\* ------------------------------------------------- Wrapper.Start and main
storeVars == <<backend, revision, keys, mu, docs, g, http, hist, allowed>>

\* main: go func() { service.Start() ... }(); Wrapper.Start makes its two
\* channels, hands the ready channel to the base server and starts the
\* server goroutine.
WrapperStart ==
    /\ wrapper.pc = "new"
    /\ wrapper' = [wrapper EXCEPT !.pc = "select", !.srv = "starting",
                                  !.errChan = MakeChan(1), !.httpReadyChan = "open",
                                  !.main = "select"]
    /\ UNCHANGED storeVars

\* BaseServer.Start: net.Listen fails and Start returns the error (or the
\* server was shut down before it could listen).
BaseListenFails(err) ==
    /\ wrapper.srv = "starting"
    /\ err = ErrServerClosed => wrapper.shutdown
    /\ wrapper' = [wrapper EXCEPT !.srv = "returned", !.out = err]
    /\ UNCHANGED storeVars

\* BaseServer.Start: net.Listen succeeds, the ready channel is closed and
\* the server serves.
BaseListens ==
    /\ wrapper.srv = "starting"
    /\ wrapper' = [wrapper EXCEPT !.srv = "serving", !.listening = TRUE,
                                  !.httpReadyChan = "closed"]
    /\ UNCHANGED storeVars

\* BaseServer.Start returns: http.ErrServerClosed after Shutdown, or the
\* error Serve failed with.
BaseServeReturns(err) ==
    /\ wrapper.srv = "serving"
    /\ err = ErrServerClosed => wrapper.shutdown
    /\ wrapper' = [wrapper EXCEPT !.srv = "returned", !.out = err]
    /\ UNCHANGED storeVars

\* if err != nil && !errors.Is(err, http.ErrServerClosed) { errChan <- err }
GoSendErr ==
    /\ wrapper.srv = "returned"
    /\ IF wrapper.out # ErrServerClosed
       THEN /\ CanSend(wrapper.errChan)
            /\ wrapper' = [wrapper EXCEPT !.srv = "sent",
                                          !.errChan = Send(@, wrapper.out)]
       ELSE wrapper' = [wrapper EXCEPT !.srv = "sent"]
    /\ UNCHANGED storeVars

\* close(errChan); the server goroutine exits.
GoClose ==
    /\ wrapper.srv = "sent"
    /\ wrapper' = [wrapper EXCEPT !.srv = "exited", !.errChan = ChanClose(@)]
    /\ UNCHANGED storeVars

\* select, case <-httpReadyChan: w.SetReady(true)
SelectReady ==
    /\ wrapper.pc = "select"
    /\ wrapper.httpReadyChan = "closed"
    /\ wrapper' = [wrapper EXCEPT !.pc = "wait", !.ready = TRUE]
    /\ UNCHANGED storeVars

\* select, case err := <-errChan: return err
SelectErr ==
    /\ wrapper.pc = "select"
    /\ CanRecv(wrapper.errChan)
    /\ wrapper' = [wrapper EXCEPT !.pc = "returned",
                                  !.ret = RecvValue(wrapper.errChan),
                                  !.errChan = RecvRest(@)]
    /\ UNCHANGED storeVars

\* return <-errChan
WaitErr ==
    /\ wrapper.pc = "wait"
    /\ CanRecv(wrapper.errChan)
    /\ wrapper' = [wrapper EXCEPT !.pc = "returned",
                                  !.ret = RecvValue(wrapper.errChan),
                                  !.errChan = RecvRest(@)]
    /\ UNCHANGED storeVars

\* main's goroutine after service.Start() returned:
\* if startErr != nil && !errors.Is(startErr, http.ErrServerClosed) { errChan <- startErr }
MainGoReports ==
    /\ wrapper.pc = "returned"
    /\ wrapper' = [wrapper EXCEPT
                      !.pc = "reported",
                      !.mainErr = IF wrapper.ret \notin {"nil", ErrServerClosed}
                                  THEN Send(@, wrapper.ret) ELSE @]
    /\ UNCHANGED storeVars

\* main, case err := <-errChan: logger.Fatal
MainFatal ==
    /\ wrapper.main = "select"
    /\ CanRecv(wrapper.mainErr)
    /\ wrapper' = [wrapper EXCEPT !.main = "fatal", !.mainErr = RecvRest(@)]
    /\ UNCHANGED storeVars

\* main, case sig := <-quit: service.Shutdown(ctx)
MainShutdown ==
    /\ wrapper.main = "select"
    /\ wrapper' = [wrapper EXCEPT !.main = "stopped", !.shutdown = TRUE]
    /\ UNCHANGED storeVars

NextStart ==
    \/ WrapperStart
    \/ \E err \in ListenErrors \cup {ErrServerClosed} : BaseListenFails(err)
    \/ BaseListens
    \/ \E err \in ServeErrors \cup {ErrServerClosed} : BaseServeReturns(err)
    \/ GoSendErr
    \/ GoClose
    \/ SelectReady
    \/ SelectErr
    \/ WaitErr
    \/ MainGoReports
    \/ MainFatal
    \/ MainShutdown

SpecStart == Init /\ [][NextStart]_vars

\* A single caller using the store directly, one call after the other.
NextStore ==
    \/ \E u \in StoreURNs, ks \in Records : StorePublicKeys(1, u, ks)
    \/ \E u \in StoreURNs, k \in Vals : StoreKey(1, u, k)
    \/ \E u \in StoreURNs : GetPublicKeys(1, u)
    \/ \E u \in StoreURNs : GetKey(1, u)
    \/ Step(1)

Spec == Init /\ [][NextStore]_vars

\* ================================================================ claims
\* The GetPublicKeys call of goroutine w has returned, and the backend
\* answered it.
ReadDone(w) ==
    /\ g[w].pc = "done"
    /\ g[w].op = "GetPublicKeys"
    /\ g[w].res.err # ErrBackend
\* The last write that took effect on the identifier goroutine w read.
LastWrite(w) == hist[String(g[w].urn)]
NonEmptyPair(ks) == len(ks.EncKey) > 0 /\ len(ks.SigKey) > 0
\* What Firestore hands back for a stored slice: a nil slice comes back
\* zero-length and non-nil; the in-memory map hands back the slice itself.
StoredVal(v) == IF backend = "firestore" /\ ~ v.present THEN Empty ELSE v
StoredKeys(ks) == PublicKeys(StoredVal(ks.EncKey), StoredVal(ks.SigKey))

\* C1: after StorePublicKeys(i, {e, s}) with non-empty e and s took effect and
\* no later write to i did, GetPublicKeys(i) succeeds and returns exactly
\* {e, s}, on either store.
C1_RoundTrip ==
    \A w \in Goroutines :
        (ReadDone(w) /\ LastWrite(w).op = "StorePublicKeys" /\ NonEmptyPair(LastWrite(w).keys))
            => g[w].res = Result("nil", LastWrite(w).keys, Nil)
C1_Witness ==
    \E w \in Goroutines :
        /\ ReadDone(w) /\ LastWrite(w).op = "StorePublicKeys"
        /\ NonEmptyPair(LastWrite(w).keys)
        /\ backend = "firestore" /\ revision = "current"
        /\ g[w].res.err = "nil"

C4_Miss ==
    \A w \in Goroutines :
        (ReadDone(w) /\ LastWrite(w).op = "none")
            => g[w].res = Result(ErrNotFound, ZeroKeys, Nil)
C4_Witness ==
    \E w \in Goroutines :
        /\ ReadDone(w) /\ LastWrite(w).op = "none"
        /\ \E k \in AllKeys : hist[k].op # "none"

\* ------------------------------------------------- claims on the handlers
\* The write request goroutine w has taken.
IsWrite(r) == r.handler = "StoreKeysHandler"
\* The request went to the store: Store.StorePublicKeys was invoked for it.
Invoked(w) == http[w].called \/ g[w].op # "none"
\* Subject present, path a URN, and the subject is not the URN's entity id.
Forbidden(r) ==
    /\ IsWrite(r) /\ r.subject.ok /\ ParseOK(r.path)
    /\ EntityID(Parse(r.path)) # r.subject.id
\* Subject present and equal to the entity id of the path's URN.
Authorized(r) ==
    /\ IsWrite(r) /\ r.subject.ok /\ ParseOK(r.path)
    /\ EntityID(Parse(r.path)) = r.subject.id
\* The body is JSON and one of its two keys decodes to nothing.
LacksKey(r) ==
    /\ r.body.valid
    /\ \/ len(Decode(r.body).EncKey) = 0
       \/ len(Decode(r.body).SigKey) = 0
StoreUntouched == keys' = keys /\ docs' = docs /\ hist' = hist

\* C5: a write request whose subject is present and differs from the entity
\* id of the path's URN is answered 403, StorePublicKeys is not invoked for
\* it, and the step that serves it leaves the store as it was.
C5_Authorization ==
    [][\A w \in Goroutines :
        Forbidden(http'[w]) =>
            /\ http'[w].status = 403
            /\ ~ Invoked(w)'
            /\ StoreUntouched]_vars
C5_Witness ==
    \E w \in Goroutines :
        /\ Forbidden(http[w]) /\ http[w].status = 403
        /\ http[w].subject = UserID("bob")
        /\ http[w].path = "urn:sm:user:alice"
        /\ ~ LacksKey(http[w]) /\ http[w].body.valid
        /\ hist["urn:sm:user:alice"].op = "StorePublicKeys"

\* C6: an authorized write request whose JSON body decodes to an empty or
\* missing encKey, or an empty or missing sigKey, is answered 400 with the
\* message "encKey and sigKey must not be empty", and StorePublicKeys is not
\* invoked for it.
C6_Validation ==
    [][\A w \in Goroutines :
        (Authorized(http'[w]) /\ LacksKey(http'[w])) =>
            /\ http'[w].status = 400
            /\ http'[w].msg = "encKey and sigKey must not be empty"
            /\ ~ Invoked(w)'
            /\ StoreUntouched]_vars
C6_Witness ==
    \E w \in Goroutines :
        /\ Authorized(http[w]) /\ LacksKey(http[w])
        /\ len(Decode(http[w].body).EncKey) > 0
        /\ ~ Decode(http[w].body).SigKey.present
        /\ http[w].status = 400
        /\ hist[http[w].path].op = "StorePublicKeys"

\* C7: a write request with no authenticated subject is answered 401 and
\* StorePublicKeys is not invoked, whatever its path and body.
C7_NoSubject ==
    [][\A w \in Goroutines :
        (IsWrite(http'[w]) /\ ~ http'[w].subject.ok) =>
            /\ http'[w].status = 401
            /\ ~ Invoked(w)'
            /\ StoreUntouched]_vars
C7_Witness ==
    \E w \in Goroutines :
        /\ IsWrite(http[w]) /\ ~ http[w].subject.ok
        /\ http[w].status = 401
        /\ ParseOK(http[w].path)
        /\ http[w].body.valid /\ ~ LacksKey(http[w])

\* --------------------------------------------- claims on concurrent callers
\* Goroutine w's GetPublicKeys returns in this step, answered by the backend.
ReadReturns(w) ==
    /\ g[w].op = "GetPublicKeys"
    /\ g[w].pc # "done"
    /\ g'[w].pc = "done"
    /\ g'[w].res.err # ErrBackend
WritesInFlight(k) == {v \in Goroutines : InWrite(v, k)}
NotFound == Result(ErrNotFound, ZeroKeys, Nil)

\* C8: when StorePublicKeys calls on one identifier ran concurrently and all
\* writes to it have returned, GetPublicKeys returns exactly the record of the
\* call among them that took effect last: not a record none of them wrote,
\* not the record that was there before them.
C8_NoLostUpdate ==
    [][\A w \in Goroutines :
        LET k == String(g[w].urn)
        IN  (/\ ReadReturns(w)
             /\ WritesInFlight(k) = {}
             /\ hist[k].op = "StorePublicKeys"
             /\ hist[k].conc)
                => g'[w].res = Result("nil", hist[k].keys, Nil)]_vars
C8_Witness ==
    \E w, v \in Goroutines :
        /\ ReadDone(w) /\ g[w].res.err = "nil"
        /\ backend = "inmemory"
        /\ LastWrite(w).conc
        /\ WritesInFlight(String(g[w].urn)) = {}
        /\ g[v].op = "StorePublicKeys" /\ g[v].pc = "done" /\ g[v].conc
        /\ g[v].urn = g[w].urn
        /\ g[v].keys # g[w].res.keys

\* C9: in-memory store: a GetPublicKeys(i) that starts after a
\* StorePublicKeys(i, R) returned yields R or the record of a write to i that
\* took effect after R; never not-found, never an older record.
C9_ReadAfterWrite ==
    \A w \in Goroutines :
        (ReadDone(w) /\ backend = "inmemory" /\ NotFound \notin allowed[w])
            => g[w].res \in allowed[w]
C9_Witness ==
    \E w \in Goroutines :
        /\ ReadDone(w) /\ backend = "inmemory"
        /\ allowed[w] = {Result("nil", LastWrite(w).keys, Nil)}
        /\ g[w].res \in allowed[w]
        /\ LastWrite(w).over = "shrunk"

\* C10: a GetPublicKeys(i) that overlaps StorePublicKeys calls on i over an
\* existing record returns the old record in full or the record of one of
\* those calls in full, never the EncKey of one with the SigKey of another;
\* on either store.
C10_NoPartialWrite ==
    [][\A w \in Goroutines :
        LET k == String(g[w].urn)
            whole == allowed[w] \cup
                     {Result("nil", g[v].keys, Nil) : v \in WritesInFlight(k)}
        IN  (ReadReturns(w) /\ NotFound \notin allowed[w])
                => g'[w].res \in whole]_vars
C10_Witness ==
    \E w \in Goroutines :
        /\ ReadDone(w)
        /\ Cardinality(allowed[w]) = 2
        /\ NotFound \notin allowed[w]
        /\ g[w].res = Result("nil", LastWrite(w).keys, Nil)
        /\ LastWrite(w).keys = PublicKeys(Key(1), Key(1))

\* ------------------------------------------------ claims on the RWMutex
\* The goroutines inside the map's critical section.
WritersInside == {w \in Goroutines : g[w].pc \in {"store", "store2"}}
ReadersInside == {w \in Goroutines : g[w].pc = "load"}

\* C11: in-memory store: at most one writer (StoreKey, StorePublicKeys) is
\* inside the critical section; while one is, no reader (GetKey,
\* GetPublicKeys) is; every goroutine touching the map holds the one lock, and
\* the lock is held by nobody else: a goroutine that has returned has
\* released it.
C11_LockDiscipline ==
    /\ Cardinality(WritersInside) <= 1
    /\ WritersInside # {} => ReadersInside = {}
    /\ \A w \in WritersInside : mu.writer = w /\ g[w].op \in WriteOps
    /\ WritersInside = {} => mu.writer = 0
    /\ mu.readers = ReadersInside
    /\ \A w \in ReadersInside : g[w].op \in ReadOps
\* Several readers are inside at the same time, one in GetKey and one in
\* GetPublicKeys, over a stored record.
C11_Witness ==
    \E w, v \in Goroutines :
        /\ w # v
        /\ {w, v} \subseteq ReadersInside
        /\ g[w].op = "GetKey" /\ g[v].op = "GetPublicKeys"
        /\ keys # <<>>

\* ------------------------------------- claims on format reconciliation
\* The document goroutine w's read found (the collection is not written to
\* while it is read here).
HasDoc(w) == String(g[w].urn) \in DOMAIN docs
DocOf(w) == docs[String(g[w].urn)]
Has(d, name) == name \in DOMAIN d
BytesOf(d, name) == IF Has(d, name) THEN [present |-> TRUE, bytes |-> d[name]] ELSE Nil

\* C12: Firestore GetPublicKeys with the V1 fallback, on an existing document:
\* when encKey or sigKey is present the result is {encKey, sigKey} as stored
\* (an absent one nil), whatever publicKey holds; otherwise, when publicKey is
\* present, the result is {publicKey, zero-length non-nil}. Always a success
\* with a current-format record.
C12_Reconcile ==
    \A w \in Goroutines :
        (ReadDone(w) /\ revision = "v1v2" /\ HasDoc(w)) =>
            LET d == DocOf(w)
            IN  /\ (Has(d, "encKey") \/ Has(d, "sigKey")) =>
                    g[w].res = Result("nil", PublicKeys(BytesOf(d, "encKey"), BytesOf(d, "sigKey")), Nil)
                /\ (~ Has(d, "encKey") /\ ~ Has(d, "sigKey") /\ Has(d, "publicKey")) =>
                    g[w].res = Result("nil", PublicKeys(BytesOf(d, "publicKey"), Empty), Nil)
\* A document with both a current field and a legacy field, the two differing.
C12_Witness ==
    \E w \in Goroutines :
        /\ ReadDone(w) /\ revision = "v1v2" /\ HasDoc(w)
        /\ Has(DocOf(w), "encKey") /\ ~ Has(DocOf(w), "sigKey") /\ Has(DocOf(w), "publicKey")
        /\ DocOf(w)["encKey"] # DocOf(w)["publicKey"]
        /\ g[w].res = Result("nil", PublicKeys(BytesOf(DocOf(w), "encKey"), Nil), Nil)

\* C13: Firestore GetPublicKeys, either revision: with no document the result
\* is the not-found error; with a document that has none of encKey, sigKey,
\* publicKey it is the unknown-format error, a different error; neither comes
\* with a record, and an existing document never gives not-found.
C13_ReconcileFailures ==
    \A w \in Goroutines :
        ReadDone(w) =>
            /\ ~ HasDoc(w) => g[w].res = Result(ErrNotFound, ZeroKeys, Nil)
            /\ (HasDoc(w) /\ DOMAIN DocOf(w) \cap FieldNames = {}) =>
                    /\ g[w].res = Result(ErrUnknownFormat, ZeroKeys, Nil)
                    /\ g[w].res.err # ErrNotFound
            /\ HasDoc(w) => g[w].res.err # ErrNotFound
C13_Witness ==
    \E w \in Goroutines :
        /\ ReadDone(w) /\ revision = "current"
        /\ HasDoc(w) /\ DOMAIN DocOf(w) = {}
        /\ g[w].res.err = ErrUnknownFormat

\* ------------------------------------------ claims on the two backends
\* C14: for every sequence of StoreKey, StorePublicKeys and GetPublicKeys
\* calls, records with a nil or a zero-length field included, the in-memory
\* store and the Firestore store return the same outcome at every step: the
\* same error kind and, on success, the same record.
C14_SameOutcome ==
    (g[1].pc = "done" /\ g[2].pc = "done") => g[1].res = g[2].res

\* --------------------------------------- claims on writes of both formats
\* The record a write stands for: a legacy key k is {k, zero-length non-nil}.
Normalized(h) ==
    IF h.op = "StoreKey" THEN PublicKeys(h.key, Empty) ELSE h.keys

IsRead(r) == r.handler = "GetKeysHandler"
\* Goroutine w has answered a read request.
ReadAnswered(w) == IsRead(http[w]) /\ g[w].pc = "done"
\* The store holds a record for the canonical string id.
Holds(id) ==
    IF backend = "inmemory" THEN id \in DOMAIN keys ELSE id \in DOMAIN docs
\* The answer to a read as a function of the path and the store contents
\* alone: the sender of the request is no argument of it.
ReadAnswer(path) ==
    IF ~ ParseOK(path) THEN [status |-> 400, out |-> BadJSON]
    ELSE IF ~ Holds(path) THEN [status |-> 404, out |-> BadJSON]
    ELSE [status |-> 200, out |-> Encode(hist[path].keys)]

\* C16: the answer of GetKeysHandler is a function of the path and the store
\* contents only: whoever sends the request, nobody or any subject, a read
\* the backend answers gets ReadAnswer(path); no read is answered 401 or 403.
C16_ReadsArePublic ==
    \A w \in Goroutines :
        ReadAnswered(w) =>
            /\ http[w].status \notin {401, 403}
            /\ g[w].res.err # ErrBackend =>
                    /\ http[w].status = ReadAnswer(http[w].path).status
                    /\ http[w].out = ReadAnswer(http[w].path).out
\* Nobody in particular reads the keys alice stored.
C16_Witness ==
    \E w \in Goroutines :
        /\ ReadAnswered(w)
        /\ http[w].subject = NoSubject
        /\ http[w].path = "urn:sm:user:alice"
        /\ http[w].status = 200
        /\ http[w].out = Encode(PublicKeys(Key(1), Key(1)))

\* C17: for a well-formed path, when Store.GetPublicKeys returns the not-found
\* error or the unknown-format error the read handler answers 404 with the
\* message "Key not found"; when it returns a record the handler answers 200
\* with Content-Type application/json and that record as body.
C17_ReadMiss404 ==
    \A w \in Goroutines :
        (ReadAnswered(w) /\ g[w].op = "GetPublicKeys") =>
            /\ g[w].res.err \in {ErrNotFound, ErrUnknownFormat} =>
                    /\ http[w].status = 404
                    /\ http[w].msg = "Key not found"
            /\ g[w].res.err = "nil" =>
                    /\ http[w].status = 200
                    /\ http[w].ctype = "application/json"
                    /\ http[w].out = Encode(g[w].res.keys)
\* A document of no known format is read through the handler.
C17_Witness ==
    \E w \in Goroutines :
        /\ ReadAnswered(w) /\ g[w].op = "GetPublicKeys"
        /\ HasDoc(w)
        /\ g[w].res.err = ErrUnknownFormat
        /\ http[w].status = 404

\* ----------------------------------------- claims on backend failures
\* C18: whenever the storage backend fails with a connectivity/internal error
\* (neither not-found nor unknown-format), the handler answers 500: the write
\* handler when StorePublicKeys fails, the read handler when GetPublicKeys
\* fails.
C18_BackendFailure500 ==
    \A w \in Goroutines :
        (/\ http[w].handler \in {"StoreKeysHandler", "GetKeysHandler"}
         /\ g[w].pc = "done"
         /\ g[w].op \in {"StorePublicKeys", "GetPublicKeys"}
         /\ g[w].res.err = ErrBackend)
            => http[w].status = 500

\* ------------------------------------------- claims on the whole service
\* The owner's write request with both keys non-empty.
GoodWrite(r) == Authorized(r) /\ r.body.valid /\ ~ LacksKey(r)
Base64Of(v) == JSONString(Base64Encode(v.bytes))

\* C19: the service over the in-memory store: a POST by the subject that owns
\* the identifier with non-empty encKey and sigKey is answered 201 and its
\* keys are the record of the path; every GET of a path that has a record,
\* with no write in between, is answered 200 with the encKey and sigKey of
\* that record.
C19_WriteThenRead ==
    \A w \in Goroutines :
        backend = "inmemory" =>
            /\ (GoodWrite(http[w]) /\ g[w].pc = "done") =>
                    /\ http[w].status = 201
                    /\ hist[http[w].path].keys = Decode(http[w].body)
                    /\ Base64Of(hist[http[w].path].keys.EncKey) = http[w].body.encKey
                    /\ Base64Of(hist[http[w].path].keys.SigKey) = http[w].body.sigKey
            /\ (ReadAnswered(w) /\ ParseOK(http[w].path)
                    /\ hist[http[w].path].op # "none") =>
                    /\ http[w].status = 200
                    /\ http[w].out.valid
                    /\ http[w].out.encKey = Base64Of(hist[http[w].path].keys.EncKey)
                    /\ http[w].out.sigKey = Base64Of(hist[http[w].path].keys.SigKey)
\* GET after a POST that stored two different keys.
C19_Witness ==
    \E w \in Goroutines :
        /\ backend = "inmemory"
        /\ ReadAnswered(w) /\ http[w].status = 200
        /\ http[w].path = "urn:sm:user:alice"
        /\ hist[http[w].path].keys = PublicKeys(Key(1), Key(2))
        /\ http[w].out = JSONBody(Base64Of(Key(1)), Base64Of(Key(2)))

\* ------------------------------------------ claims on malformed paths
\* The path is the canonical string of no URN.
Malformed(path) == path \notin {String(u) : u \in AllURNs}

\* C20: every read request, and every write request with a subject, whose
\* path does not parse as a URN is answered 400 "Invalid URN format", the
\* store is not invoked for it and is left as it was.
C20_MalformedURN ==
    [][\A w \in Goroutines :
        (/\ IsRead(http'[w]) \/ (IsWrite(http'[w]) /\ http'[w].subject.ok)
         /\ Malformed(http'[w].path)) =>
            /\ http'[w].status = 400
            /\ http'[w].msg = "Invalid URN format"
            /\ ~ Invoked(w)'
            /\ StoreUntouched]_vars
\* A read of a malformed path while the store holds a record.
C20_Witness ==
    \E w \in Goroutines :
        /\ IsRead(http[w]) /\ Malformed(http[w].path)
        /\ http[w].status = 400
        /\ hist["urn:sm:user:alice"].op = "StorePublicKeys"

\* ------------------------------------ claims on the V1/V2 write handlers
IsWriteV1V2(r) == r.handler \in {"StoreKeyHandler", "StorePublicKeysHandler"}
\* The body of the write request is acceptable to its handler.
ValidBodyV1V2(r) ==
    IF r.handler = "StoreKeyHandler" THEN len(r.raw) > 0
    ELSE r.body.valid /\ ~ LacksKey(r)
\* The subject is the bare entity id of the path's URN.
BareOwner(r) ==
    /\ IsWriteV1V2(r) /\ r.subject.ok /\ ParseOK(r.path)
    /\ r.subject.id = EntityID(Parse(r.path))

\* C21: V1/V2 handlers: a write request whose subject is the bare entity id
\* of the path's URN and whose body is valid, once answered with the backend
\* having carried out the write, has status 201 and the store write method
\* was invoked for it with the parsed identifier and the decoded body.
C21_BareSubjectAccepted ==
    \A w \in Goroutines :
        (/\ BareOwner(http[w]) /\ ValidBodyV1V2(http[w])
         /\ g[w].pc = "done" /\ g[w].res.err # ErrBackend)
            => /\ http[w].status = 201
               /\ http[w].called
               /\ g[w].urn = Parse(http[w].path)

\* ------------------------------------------------ claims on cancellation
\* The call of goroutine w is in progress under a context that was cancelled
\* before the call was made.
RunsCancelled(w) == ~ Idle(w) /\ g[w].ctx = "cancelled"

\* C22: a StorePublicKeys or GetPublicKeys call made under an already
\* cancelled context, on either store, takes no step that changes the store,
\* and returns the cancellation error.
C22_CancelAborts ==
    [][\A w \in Goroutines :
        RunsCancelled(w) =>
            /\ keys' = keys /\ docs' = docs
            /\ g'[w].pc = "done" => g'[w].res.err = ErrCanceled]_vars

\* ------------------------------------------ claims on the order of checks
\* Goroutine w has answered a write request of the current API.
WriteAnswered(w) == IsWrite(http[w]) /\ g[w].pc = "done"
\* The checks of the claim, in its order, as the number of the first one the
\* request fails; 6 when it fails none and the storage write is made.
FirstFailing(r) ==
    IF ~ r.subject.ok THEN 1
    ELSE IF Malformed(r.path) THEN 2
    ELSE IF EntityID(Parse(r.path)) # r.subject.id THEN 3
    ELSE IF ~ r.body.valid THEN 4
    ELSE IF LacksKey(r) THEN 5
    ELSE 6
StatusOfCheck == <<401, 400, 403, 400, 400>>

\* C23: the answer to a write request is that of the first failing check in
\* the order subject (401), path (400), ownership (403), JSON body (400),
\* non-empty keys (400); the store is called only when all five pass, and
\* then the answer is 500 when the write fails and 201 when it succeeds.
C23_CheckOrder ==
    \A w \in Goroutines :
        WriteAnswered(w) =>
            LET n == FirstFailing(http[w])
            IN  /\ n <= 5 => (http[w].status = StatusOfCheck[n] /\ ~ Invoked(w))
                /\ n = 4 => http[w].msg = "Invalid JSON body format"
                /\ n = 6 => /\ Invoked(w)
                            /\ http[w].status = IF g[w].res.err = "nil" THEN 201 ELSE 500
\* A request by the wrong subject with a malformed body, after a write that
\* went through: answered 403.
C23_Witness ==
    \E w \in Goroutines :
        /\ WriteAnswered(w)
        /\ FirstFailing(http[w]) = 3
        /\ ~ http[w].body.valid
        /\ http[w].status = 403
        /\ \E k \in AllKeys : hist[k].op # "none"

\* --------------------------------------------- claims on stored records
\* The records the store holds, as GetPublicKeys would return them, while no
\* write is inside the in-memory store's critical section.
StoredIds == IF backend = "inmemory" THEN DOMAIN keys ELSE DOMAIN docs
StoredRecord(id) ==
    IF backend = "inmemory" THEN keys[id] ELSE DataToV2(docs[id])
Quiescent == WritersInside = {}

\* C24: with the write handler of the current API as the only writer, every
\* record in the store, in-memory or Firestore, has a non-empty EncKey and a
\* non-empty SigKey.
C24_StoredKeysNonEmpty ==
    Quiescent =>
        \A id \in StoredIds :
            /\ len(StoredRecord(id).EncKey) > 0
            /\ len(StoredRecord(id).SigKey) > 0
\* Two records are stored and a request lacking a key has just been refused.
C24_Witness ==
    /\ Quiescent
    /\ Cardinality(StoredIds) = 2
    /\ \E w \in Goroutines :
            /\ WriteAnswered(w) /\ Authorized(http[w]) /\ LacksKey(http[w])
            /\ http[w].status = 400

\* ------------------------------------ claims on distinct identifiers
\* What GetPublicKeys(id) returns on the store as it stands.
ReadOf(id) ==
    IF backend = "inmemory" THEN InMemoryGetPublicKeys(keys, id)
    ELSE FirestoreGetPublicKeys(docs, id)
\* Goroutine w takes this step inside a write to identifier id.
WriteStepOn(w, id) == InWrite(w, id) /\ g'[w].pc # g[w].pc

\* C25: whatever the interleaving of calls on the identifiers, a step that
\* changes what GetPublicKeys(j) returns, or the stored record of j, is a
\* step of a StoreKey or StorePublicKeys call on j itself: a write to an
\* identifier with another canonical string leaves j as it was.
C25_Independence ==
    [][\A j \in AllKeys :
        (\/ ReadOf(j)' # ReadOf(j)
         \/ (j \in DOMAIN keys) # (j \in DOMAIN keys')
         \/ (j \in DOMAIN keys /\ j \in DOMAIN keys' /\ keys'[j] # keys[j]))
            => \E w \in Goroutines : WriteStepOn(w, j)]_vars
\* A read of bob's record has returned it while a write to alice, over a
\* record of hers, is half way.
C25_Witness ==
    \E w, v \in Goroutines :
        /\ ReadDone(w) /\ g[w].urn = URN("user", "bob") /\ g[w].res.err = "nil"
        /\ InWrite(v, "urn:sm:user:alice") /\ g[v].pc \in {"store2", "rpc"}
        /\ hist["urn:sm:user:alice"].op # "none"
        /\ ReadOf("urn:sm:user:alice") # ReadOf("urn:sm:user:bob")

\* ------------------------------------------------ claims on the legacy read
\* The GetKey call of goroutine w has returned, and the backend answered it.
GetKeyDone(w) ==
    /\ g[w].pc = "done"
    /\ g[w].op = "GetKey"
    /\ g[w].res.err # ErrBackend

\* C26: GetKey(i) on a record written by either write path succeeds with the
\* bytes of the record's encryption key: e after StorePublicKeys(i, {e, s}),
\* k after StoreKey(i, k); on either store.
C26_LegacyRead ==
    \A w \in Goroutines :
        (GetKeyDone(w) /\ LastWrite(w).op # "none") =>
            /\ g[w].res.err = "nil"
            /\ g[w].res.key.bytes = Normalized(LastWrite(w)).EncKey.bytes

\* ------------------------------------------------ claims on service start
\* Wrapper.Start has returned.
StartReturned == wrapper.pc \in {"returned", "reported"}
\* The server goroutine is through with the server: BaseServer.Start has
\* returned and its error, if any, is in the channel; closing the channel is
\* all it has left to do.
ServerGoroutineDone == wrapper.srv \in {"sent", "exited"}
\* What Wrapper.Start returns for what BaseServer.Start returned.
StartResult(out) == IF out = ErrServerClosed THEN "nil" ELSE out

EntryOf(id) ==
    [mem |-> IF id \in DOMAIN keys THEN <<keys[id]>> ELSE <<>>,
     doc |-> IF id \in DOMAIN docs THEN <<docs[id]>> ELSE <<>>]
StoreChanges == keys' # keys \/ docs' # docs
\* Goroutine w answers its write request in this step.
AnswersWrite(w) == IsWrite(http'[w]) /\ g[w].pc # "done" /\ g'[w].pc = "done"

Rewritten(id) == EntryOf(id)' # EntryOf(id) \/ hist'[id] # hist[id]
\* Goroutine w serves a write request of a subject whose id is the entity id
\* of identifier id, the path of the request.
OwnerWrites(w, id) ==
    /\ IsWrite(http[w]) /\ http[w].subject.ok
    /\ http[w].path = id
    /\ \E u \in AllURNs : String(u) = id /\ u.id = http[w].subject.id

\* C29: current API: every step that creates or overwrites the record of an
\* identifier is a step of a write request whose authenticated subject is
\* the entity id of that identifier; so, from the empty store on, every
\* record sits under an identifier whose entity id is the subject that last
\* wrote it, and no subject writes under another entity id.
C29_Ownership ==
    [][\A id \in AllKeys :
        Rewritten(id) =>
            \E w \in Goroutines : g'[w].pc # g[w].pc /\ OwnerWrites(w, id)]_vars
\* alice has stored a record under her user identifier and has now stored one
\* under her device identifier; bob's attempts changed neither.
C29_Witness ==
    \E w \in Goroutines :
        /\ WriteAnswered(w) /\ http[w].status = 201
        /\ http[w].subject = UserID("alice")
        /\ http[w].path = "urn:sm:device:alice"
        /\ hist["urn:sm:user:alice"].op = "StorePublicKeys"
        /\ hist["urn:sm:device:alice"].keys = Decode(http[w].body)

\* ------------------------------------------------ claims on removal
\* C30: no step of the store removes an entry: the stored identifiers of the
\* map and of the collection only grow; and on the in-memory store, once a
\* write to an identifier has taken effect, no GetPublicKeys of it returns
\* the not-found error.
C30_NeverRemoved ==
    [][/\ DOMAIN keys \subseteq DOMAIN keys'
       /\ DOMAIN docs \subseteq DOMAIN docs'
       /\ \A w \in Goroutines :
            (/\ backend = "inmemory"
             /\ ReadReturns(w)
             /\ hist[String(g[w].urn)].op # "none")
                => /\ g'[w].res.err = "nil"
                   /\ String(g[w].urn) \in DOMAIN keys']_vars
\* Both identifiers are stored, one of them overwritten, and a read of it on
\* the in-memory store has succeeded.
C30_Witness ==
    \E w \in Goroutines :
        /\ backend = "inmemory" /\ revision = "current"
        /\ ReadDone(w) /\ g[w].res.err = "nil"
        /\ LastWrite(w).over # "first"
        /\ Cardinality(DOMAIN keys) = 2

====
